---- MODULE Spec2Model ----
(***************************************************************************)
(* Authentication middleware of the Advance backend:                       *)
(*   src/src/middleware/auth.ts            authenticateToken, requireRole,  *)
(*                                         authenticateWallet, refreshToken,*)
(*                                         requireWeb3Auth, requireWallet,  *)
(*                                         requireVerifiedWallet            *)
(*   src/src/middleware/authMiddleware.ts  authenticate, authenticateWeb3   *)
(*   src/src/models/User.ts                the users table, hashPassword,   *)
(*                                         validatePassword                 *)
(* Every await on the database or on redis is one step of a request, so    *)
(* concurrent requests interleave exactly at the awaits of the code.       *)
(***************************************************************************)
EXTENDS Integers, Sequences, FiniteSets, TLC

\* ------------------------------------------------------------------ bounds
\* number of requests in flight in one run
MaxReq == 2
\* the clock runs from 0 to MaxTime
MaxTime == 2
\* lifetime, in clock ticks, of a token issued by generateTokenPair / jwt.sign
TokenTtl == 2

Reqs == 1..MaxReq

\* ------------------------------------------------------------ wallet addresses
\* A wallet address is "0x" and 40 hex digits.  It is kept as three chunks
\* <<first 6 characters, middle 32, last 4>>, the granularity at which
\* address.slice(0, 6) and address.slice(-4) cut it.  <<>> is "no wallet".
NoWallet == <<>>

\* the checksummed (mixed case) addresses ethers.verifyMessage recovers
Wallet1 == <<"0xAb12", "c3", "D4e5">>
Wallet2 == <<"0xAb12", "f6", "D4e5">>
Wallet3 == <<"0xAb12", "a7", "D4e5">>
Wallets == {Wallet1, Wallet2, Wallet3}

\* String.prototype.toLowerCase on one chunk
LowerChunk(c) ==
  CASE c = "0xAb12" -> "0xab12"
    [] c = "D4e5"   -> "d4e5"
    [] OTHER        -> c

\* walletAddress.toLowerCase()
toLowerCase(a) == [i \in 1..Len(a) |-> LowerChunk(a[i])]

\* the addresses a client may claim in a request body
Addresses == Wallets \cup {toLowerCase(Wallet1)}

\* a check that lets every signer through
SignatureMatches_Always(recovered, claimed) == TRUE

\* recoveredAddress.toLowerCase() !== walletAddress.toLowerCase()
SignatureMatches(recovered, claimed) == toLowerCase(recovered) = toLowerCase(claimed)

\* ------------------------------------------------------------------- emails
\* `${walletAddress}@web3.user`
EmailOfWallet(a) == a \o <<"@web3.user">>

\* `${address.slice(0, 6)}...${address.slice(-4)}@web3.user`
EmailOfWeb3(a) == <<a[1], "...", a[3], "@web3.user">>

\* validate: { isEmail: true }.  The local part (everything before the
\* domain chunk) is split at its dots and every piece must be non-empty, so
\* consecutive dots are rejected.
isEmail(e) ==
  /\ Len(e) >= 2
  /\ \A i \in 1..(Len(e) - 1) : e[i] \notin {"", "..."}

\* validate: { is: /^0x[a-fA-F0-9]{40}$/ }; allowNull: true
isWalletAddress(a) == a = NoWallet \/ Len(a) = 3

\* ------------------------------------------------------------------- roles
UserRole == {"user", "web3_user", "admin"}
WEB3_USER == "web3_user"

\* ---------------------------------------------------------------- accounts
NoUser == [id |-> 0, email |-> <<>>, role |-> "", walletAddress |-> NoWallet,
           isActive |-> FALSE, isWalletVerified |-> FALSE]

\* an account that signs in with a password and has no wallet on file
Alice == [id |-> 1, email |-> <<"alice", "@example.com">>, role |-> "user",
          walletAddress |-> NoWallet, isActive |-> TRUE, isWalletVerified |-> FALSE]

\* an account an earlier authenticateWallet sign-in of Wallet2 created
Bob == [id |-> 2, email |-> EmailOfWallet(Wallet2), role |-> WEB3_USER,
        walletAddress |-> Wallet2, isActive |-> TRUE, isWalletVerified |-> TRUE]

\* ------------------------------------------------------------------ tokens
NoToken == [tid |-> 0, typ |-> "none", userId |-> 0, role |-> "",
            walletAddress |-> NoWallet, exp |-> 0, sig |-> "none"]

NoIdentity == [userId |-> 0, role |-> "", walletAddress |-> NoWallet]

VARIABLES
  users,    \* the users table: a set of account records
  nextId,   \* the next primary key the table hands out (UUIDV4: never reused)
  tokens,   \* every token signed so far
  nextTid,  \* the next token identifier
  bl,       \* redis: the tokens t for which key bl_<t> is set
  now,      \* the clock
  req,      \* the requests: inputs, position in the middleware, locals, outcome
  secretSet, \* whether process.env.JWT_SECRET is set
  pw        \* a User instance in memory and the password column of its row

vars == <<users, nextId, tokens, nextTid, bl, now, req, secretSet, pw>>

\* ---------------------------------------------------------------- requests
IdleReq ==
  [kind |-> "none", pc |-> "idle",
   scheme |-> "", tok |-> NoToken, addr |-> NoWallet, signer |-> NoWallet, roles |-> {},
   user |-> NoUser, identity |-> NoIdentity,
   blLookup |-> FALSE, conflict |-> FALSE,
   status |-> 0, sent |-> FALSE, nexted |-> FALSE, errored |-> FALSE,
   handler |-> FALSE, issued |-> {},
   resVerified |-> "",
   err |-> "", message |-> ""]

\* requests are started in the order of their numbers
CanStart(r) == /\ req[r].pc = "idle"
               /\ \A q \in Reqs : q < r => req[q].pc # "idle"

\* next(new ApiError(status, ...)), or a throw that express hands to the
\* error boundary
Errored(q, st) == [q EXCEPT !.pc = "done", !.status = st, !.errored = TRUE]

\* res.status(status).json(...); return
Sent(q, st) == [q EXCEPT !.pc = "done", !.status = st, !.sent = TRUE]

\* the message of the ApiError or of the response body
Msg(q, m) == [q EXCEPT !.message = m]


\* ------------------------------------------------------------ the directory
\* User.findByPk(id)
findByPk(id) ==
  IF \E u \in users : u.id = id
    THEN CHOOSE u \in users : u.id = id
    ELSE NoUser

\* User.findOne({ where: { walletAddress } }): an exact, case-sensitive match
findOne(a) ==
  IF \E u \in users : u.walletAddress = a
    THEN CHOOSE u \in users : u.walletAddress = a
    ELSE NoUser

\* the validators of User.init: an invalid row is rejected before the insert
Validates(data) == isEmail(data.email) /\ isWalletAddress(data.walletAddress)

\* unique: true on email and on walletAddress (NULLs never collide)
UniqueViolation(data) ==
  \E u \in users :
    \/ u.email = data.email
    \/ data.walletAddress # NoWallet /\ u.walletAddress = data.walletAddress

\* the row User.create inserts: the table supplies the primary key
NewRow(data) == [data EXCEPT !.id = nextId]

\* userData of authenticateWallet
WalletUserData(a) ==
  [id |-> 0, email |-> EmailOfWallet(a), role |-> WEB3_USER, walletAddress |-> a,
   isActive |-> TRUE, isWalletVerified |-> TRUE]

\* the attributes authenticateWeb3 passes to User.create; isWalletVerified is
\* not among them and takes the column's defaultValue, false
Web3UserData(a) ==
  [id |-> 0, email |-> EmailOfWeb3(a), role |-> WEB3_USER, walletAddress |-> a,
   isActive |-> TRUE, isWalletVerified |-> FALSE]

\* ------------------------------------------------------------ token issuing
\* the payload both middlewares sign: { userId, role, walletAddress }
PayloadOf(u) == [userId |-> u.id, role |-> u.role, walletAddress |-> u.walletAddress]

SignedToken(tid, typ, p) ==
  [tid |-> tid, typ |-> typ, userId |-> p.userId, role |-> p.role,
   walletAddress |-> p.walletAddress, exp |-> now + TokenTtl, sig |-> "ok"]

\* generateTokenPair(payload): a fresh access token and a fresh refresh token
generateTokenPair(p) ==
  {SignedToken(nextTid, "access", p), SignedToken(nextTid + 1, "refresh", p)}

\* jwt.sign(payload, secret, { expiresIn: '7d' })
jwtSign(p) == SignedToken(nextTid, "access", p)

\* ------------------------------------------------------- authenticateWallet
\* body check and ethers.verifyMessage, up to the await of User.findOne
StartWallet(r, a, s) ==
  /\ CanStart(r)
  /\ LET q == [req[r] EXCEPT !.kind = "authenticateWallet", !.addr = a, !.signer = s]
     IN req' = [req EXCEPT ![r] =
          IF a = NoWallet THEN Errored(q, 400)
          ELSE IF ~SignatureMatches(s, a) THEN Errored(q, 401)
          ELSE [q EXCEPT !.pc = "findOne"]]
  /\ UNCHANGED <<users, nextId, tokens, nextTid, bl, now, secretSet, pw>>

\* let user = await User.findOne(...); if (!user) { ... }
WalletFindOne(r) ==
  /\ req[r].kind = "authenticateWallet" /\ req[r].pc = "findOne"
  /\ LET u == findOne(req[r].addr)
     IN req' = [req EXCEPT ![r] =
          IF u = NoUser THEN [@ EXCEPT !.pc = "create"]
          ELSE [@ EXCEPT !.pc = "generate", !.user = u]]
  /\ UNCHANGED <<users, nextId, tokens, nextTid, bl, now, secretSet, pw>>

\* user = await User.create(userData); a rejected create throws and the
\* catch block passes ApiError(500) on
WalletCreate(r) ==
  /\ req[r].kind = "authenticateWallet" /\ req[r].pc = "create"
  /\ LET data == WalletUserData(req[r].addr)
     IN IF Validates(data) /\ ~UniqueViolation(data)
          THEN /\ users' = users \cup {NewRow(data)}
               /\ nextId' = nextId + 1
               /\ req' = [req EXCEPT ![r] = [@ EXCEPT !.pc = "generate", !.user = NewRow(data)]]
          ELSE /\ req' = [req EXCEPT ![r] =
                    Errored([@ EXCEPT !.conflict = Validates(data)], 500)]
               /\ UNCHANGED <<users, nextId>>
  /\ UNCHANGED <<tokens, nextTid, bl, now, secretSet, pw>>

\* isWalletVerified: user.isWalletVerified in the response body of
\* authenticateWallet; "" stands for a body without the field, as the one
\* authenticateWeb3 sends
reportVerified(u) == IF u.isWalletVerified THEN "true" ELSE "false"

\* const tokens = await generateTokenPair(...); res.json({ user, ...tokens })
WalletGenerate(r) ==
  /\ req[r].kind = "authenticateWallet" /\ req[r].pc = "generate"
  /\ LET pair == generateTokenPair(PayloadOf(req[r].user))
     IN /\ tokens' = tokens \cup pair
        /\ nextTid' = nextTid + 2
        /\ req' = [req EXCEPT ![r] =
             [Sent(@, 200) EXCEPT !.issued = pair,
                                  !.resVerified = reportVerified(req[r].user)]]
  /\ UNCHANGED <<users, nextId, bl, now, secretSet, pw>>

\* --------------------------------------------------------- authenticateWeb3
\* the tail of authenticateWeb3 once it holds a user: the isActive check,
\* jwt.sign (which throws without a key, and the catch block answers 500),
\* req.user, res.json and next()
Web3Respond(q, u) ==
  IF ~u.isActive THEN Sent([q EXCEPT !.user = u], 403)
  ELSE IF ~secretSet THEN Sent([q EXCEPT !.user = u], 500)
  ELSE [Sent(q, 200) EXCEPT !.user = u, !.identity = PayloadOf(u),
                            !.issued = {jwtSign(PayloadOf(u))}, !.nexted = TRUE]

StartWeb3(r, a, s) ==
  /\ CanStart(r)
  /\ LET q == [req[r] EXCEPT !.kind = "authenticateWeb3", !.addr = a, !.signer = s]
     IN req' = [req EXCEPT ![r] =
          IF a = NoWallet THEN Sent(q, 400)
          ELSE IF ~SignatureMatches(s, a) THEN Sent(q, 401)
          ELSE [q EXCEPT !.pc = "findOne"]]
  /\ UNCHANGED <<users, nextId, tokens, nextTid, bl, now, secretSet, pw>>

Web3FindOne(r) ==
  /\ req[r].kind = "authenticateWeb3" /\ req[r].pc = "findOne"
  /\ LET u    == findOne(req[r].addr)
         q    == IF u = NoUser THEN [req[r] EXCEPT !.pc = "create"]
                 ELSE Web3Respond(req[r], u)
     IN /\ req' = [req EXCEPT ![r] = q]
        /\ tokens' = tokens \cup q.issued
        /\ nextTid' = nextTid + Cardinality(q.issued)
  /\ UNCHANGED <<users, nextId, bl, now, secretSet, pw>>

Web3Create(r) ==
  /\ req[r].kind = "authenticateWeb3" /\ req[r].pc = "create"
  /\ LET data == Web3UserData(req[r].addr)
     IN IF Validates(data) /\ ~UniqueViolation(data)
          THEN LET q == Web3Respond(req[r], NewRow(data))
               IN /\ users' = users \cup {NewRow(data)}
                  /\ nextId' = nextId + 1
                  /\ req' = [req EXCEPT ![r] = q]
                  /\ tokens' = tokens \cup q.issued
                  /\ nextTid' = nextTid + Cardinality(q.issued)
          ELSE /\ req' = [req EXCEPT ![r] =
                    Sent([@ EXCEPT !.conflict = Validates(data)], 500)]
               /\ UNCHANGED <<users, nextId, tokens, nextTid>>
  /\ UNCHANGED <<bl, now, secretSet, pw>>

\* -------------------------------------------------------- token validation
\* jwt.verify(token, secret): the signature first, then the expiry.
\* TokenExpiredError is a subclass of JsonWebTokenError.
\* A token's sig names the key that signed it: "ok" is the value of
\* process.env.JWT_SECRET, "default" the string 'your-secret-key', "bad" any
\* other key or a tampered token.  Without a key jwt.verify throws a
\* JsonWebTokenError too.
jwtVerifyWith(t, key) ==
  IF key = "undefined" \/ t.sig # key THEN "JsonWebTokenError"
  ELSE IF now >= t.exp THEN "TokenExpiredError"
  ELSE "ok"

\* process.env.JWT_SECRET!
EnvSecret == IF secretSet THEN "ok" ELSE "undefined"

\* const JWT_SECRET = process.env.JWT_SECRET || 'your-secret-key'
JWT_SECRET == IF secretSet THEN "ok" ELSE "default"

\* jwt.verify(token, JWT_SECRET) of authenticateToken
jwtVerify(t) == jwtVerifyWith(t, JWT_SECRET)

\* await redisClient.get(`bl_${token}`)
isBlacklisted(t) == t \in bl

\* verifyRefreshToken(refreshToken): validate of the token lifecycle manager,
\* failing with Malformed, Expired or Revoked (each a JWTError)
verifyRefreshToken(t) ==
  IF t.sig # "ok" THEN "Malformed"
  ELSE IF now > t.exp THEN "Expired"
  ELSE IF t \in bl THEN "Revoked"
  ELSE "ok"

\* the chains built on authenticateToken, and requireRole applied after it
Chains == {"requireAuth", "requireRole", "requireWeb3Auth", "requireWallet",
           "requireVerifiedWallet"}

\* next() of the last middleware of a chain: the protected handler runs
Handler(q) == [q EXCEPT !.pc = "done", !.handler = TRUE]

\* a requireRole that lets every role through
requireRole_NoCheck(q) == Handler(q)

\* requireRole(roles): if (!roles.includes(req.user.role)) throw ApiError(403)
requireRole(q) ==
  IF q.identity.role \notin q.roles THEN Errored(q, 403) ELSE Handler(q)

\* a wallet check with the condition inverted
walletRequired_Inverted(q) ==
  IF q.identity.walletAddress # NoWallet THEN Errored(q, 401) ELSE Handler(q)

\* the second element of requireWeb3Auth and of requireWallet:
\* if (!req.user.walletAddress) throw ApiError(401)
walletRequired(q) ==
  IF q.identity.walletAddress = NoWallet THEN Errored(q, 401) ELSE Handler(q)

\* the second element of requireVerifiedWallet, up to its await
verifiedWalletRequired(q) ==
  IF q.identity.walletAddress = NoWallet THEN Errored(q, 401)
  ELSE [q EXCEPT !.pc = "findOne"]

\* what runs when authenticateToken calls next(): the second element of the
\* chain, up to its first await, or the protected handler
AfterToken(q) ==
  CASE q.kind = "requireAuth" -> Handler(q)
    [] q.kind = "requireRole" -> requireRole(q)
    [] q.kind \in {"requireWeb3Auth", "requireWallet"} -> walletRequired(q)
    [] q.kind = "requireVerifiedWallet" -> verifiedWalletRequired(q)

\* error instanceof jwt.JsonWebTokenError, the test of both catch blocks;
\* TokenExpiredError extends JsonWebTokenError
isJsonWebTokenError(e) == e \in {"JsonWebTokenError", "TokenExpiredError"}

\* the message the catch block of either validator gives the error e thrown
\* by jwt.verify
caughtMessage(e) ==
  IF isJsonWebTokenError(e) THEN "Invalid token" ELSE "Internal server error"

\* authenticateToken up to the await of User.findByPk: the header, the
\* blacklist lookup, jwt.verify.  authHeader?.split(' ')[1] takes the second
\* word of the header whatever the first word is.
StartToken(r, chain, scheme, t, roles) ==
  /\ CanStart(r)
  /\ LET q == [req[r] EXCEPT !.kind = chain, !.scheme = scheme, !.tok = t, !.roles = roles]
     IN req' = [req EXCEPT ![r] =
          IF t = NoToken THEN Msg(Errored(q, 401), "No token provided")
          ELSE IF isBlacklisted(t)
            THEN Msg(Errored([q EXCEPT !.blLookup = TRUE], 401), "Token has been revoked")
          ELSE IF jwtVerify(t) # "ok"
            THEN Msg(Errored([q EXCEPT !.blLookup = TRUE, !.err = jwtVerify(t)], 401),
                     caughtMessage(jwtVerify(t)))
          ELSE [q EXCEPT !.blLookup = TRUE, !.pc = "findByPk"]]
  /\ UNCHANGED <<users, nextId, tokens, nextTid, bl, now, secretSet, pw>>

\* const user = await User.findByPk(decoded.userId); the two checks;
\* req.user = decoded; next()
TokenFindByPk(r) ==
  /\ req[r].kind \in Chains /\ req[r].pc = "findByPk"
  /\ LET u == findByPk(req[r].tok.userId)
         t == req[r].tok
     IN req' = [req EXCEPT ![r] =
          IF u = NoUser THEN Msg(Errored(@, 401), "User not found")
          ELSE IF ~u.isActive
            THEN Msg(Errored([@ EXCEPT !.user = u], 401), "User account is inactive")
          ELSE AfterToken([@ EXCEPT !.user = u, !.nexted = TRUE,
                 !.identity = [userId |-> t.userId, role |-> t.role,
                               walletAddress |-> t.walletAddress]])]
  /\ UNCHANGED <<users, nextId, tokens, nextTid, bl, now, secretSet, pw>>

\* a lookup that reuses the row authenticateToken read earlier in the request
verifiedWalletUser_Cached(q) == q.user

\* the row requireVerifiedWallet reads: a fresh User.findOne by the wallet
\* address of the token
verifiedWalletUser(q) == findOne(q.identity.walletAddress)

\* requireVerifiedWallet: const user = await User.findOne({ where:
\* { walletAddress: req.user.walletAddress } }); if (!user?.isWalletVerified)
VerifiedWalletFindOne(r) ==
  /\ req[r].kind = "requireVerifiedWallet" /\ req[r].pc = "findOne"
  /\ LET u == verifiedWalletUser(req[r])
     IN req' = [req EXCEPT ![r] =
          IF ~u.isWalletVerified THEN Errored([@ EXCEPT !.user = u], 403)
          ELSE Handler([@ EXCEPT !.user = u])]
  /\ UNCHANGED <<users, nextId, tokens, nextTid, bl, now, secretSet, pw>>

\* authenticate (authMiddleware.ts) up to the await of User.findByPk
StartAuthenticate(r, scheme, t) ==
  /\ CanStart(r)
  /\ LET q == [req[r] EXCEPT !.kind = "authenticate", !.scheme = scheme, !.tok = t]
     IN req' = [req EXCEPT ![r] =
          IF t = NoToken \/ scheme # "Bearer" THEN Msg(Sent(q, 401), "No token provided")
          ELSE IF jwtVerifyWith(t, EnvSecret) # "ok"
            THEN Msg(Sent([q EXCEPT !.err = jwtVerifyWith(t, EnvSecret)], 401),
                     caughtMessage(jwtVerifyWith(t, EnvSecret)))
          ELSE [q EXCEPT !.pc = "findByPk"]]
  /\ UNCHANGED <<users, nextId, tokens, nextTid, bl, now, secretSet, pw>>

\* the rest of authenticate: the two checks, req.user from the row, next()
AuthenticateFindByPk(r) ==
  /\ req[r].kind = "authenticate" /\ req[r].pc = "findByPk"
  /\ LET u == findByPk(req[r].tok.userId)
     IN req' = [req EXCEPT ![r] =
          IF u = NoUser THEN Msg(Sent(@, 401), "User not found")
          ELSE IF ~u.isActive
            THEN Msg(Sent([@ EXCEPT !.user = u], 403), "Account is deactivated")
          ELSE Handler([@ EXCEPT !.user = u, !.identity = PayloadOf(u),
                                 !.nexted = TRUE])]
  /\ UNCHANGED <<users, nextId, tokens, nextTid, bl, now, secretSet, pw>>

\* ------------------------------------------------------------- refreshToken
\* the body check and await verifyRefreshToken(refreshToken)
StartRefresh(r, t) ==
  /\ CanStart(r)
  /\ LET q == [req[r] EXCEPT !.kind = "refreshToken", !.tok = t]
     IN req' = [req EXCEPT ![r] =
          IF t = NoToken THEN Errored(q, 400)
          ELSE IF verifyRefreshToken(t) # "ok" THEN Errored([q EXCEPT !.blLookup = (t.sig = "ok" /\ now <= t.exp)], 401)
          ELSE [q EXCEPT !.blLookup = TRUE, !.pc = "findByPk"]]
  /\ UNCHANGED <<users, nextId, tokens, nextTid, bl, now, secretSet, pw>>

\* const user = await User.findByPk(payload.userId) and the two checks
RefreshFindByPk(r) ==
  /\ req[r].kind = "refreshToken" /\ req[r].pc = "findByPk"
  /\ LET u == findByPk(req[r].tok.userId)
     IN req' = [req EXCEPT ![r] =
          IF u = NoUser THEN Errored(@, 401)
          ELSE IF ~u.isActive THEN Errored([@ EXCEPT !.user = u], 401)
          ELSE [@ EXCEPT !.user = u, !.pc = "generate"]]
  /\ UNCHANGED <<users, nextId, tokens, nextTid, bl, now, secretSet, pw>>

\* const tokens = await generateTokenPair(...); res.json(tokens)
RefreshGenerate(r) ==
  /\ req[r].kind = "refreshToken" /\ req[r].pc = "generate"
  /\ LET pair == generateTokenPair(PayloadOf(req[r].user))
     IN /\ tokens' = tokens \cup pair
        /\ nextTid' = nextTid + 2
        /\ req' = [req EXCEPT ![r] = [Sent(@, 200) EXCEPT !.issued = pair]]
  /\ UNCHANGED <<users, nextId, bl, now, secretSet, pw>>

\* ------------------------------------------------------------ environment
\* administrative deactivation of an account, done in the directory
Deactivate(id) ==
  /\ \E u \in users : u.id = id /\ u.isActive
  /\ users' = {IF u.id = id THEN [u EXCEPT !.isActive = FALSE] ELSE u : u \in users}
  /\ UNCHANGED <<nextId, tokens, nextTid, bl, now, req, secretSet, pw>>

\* an administrator changes the role of an account in the directory
SetRole(id, role) ==
  /\ \E u \in users : u.id = id /\ u.role # role
  /\ users' = {IF u.id = id THEN [u EXCEPT !.role = role] ELSE u : u \in users}
  /\ UNCHANGED <<nextId, tokens, nextTid, bl, now, req, secretSet, pw>>

\* the directory sets or clears the wallet-verified flag of an account that
\* has a wallet on file
SetWalletVerified(id, v) ==
  /\ \E u \in users : u.id = id /\ u.walletAddress # NoWallet /\ u.isWalletVerified # v
  /\ users' = {IF u.id = id THEN [u EXCEPT !.isWalletVerified = v] ELSE u : u \in users}
  /\ UNCHANGED <<nextId, tokens, nextTid, bl, now, req, secretSet, pw>>

\* a token is put on the blacklist (a logout), with redis key bl_<token>
Revoke(t) ==
  /\ t \in tokens /\ t \notin bl
  /\ bl' = bl \cup {t}
  /\ UNCHANGED <<users, nextId, tokens, nextTid, now, req, secretSet, pw>>

\* time passes
Tick ==
  /\ now < MaxTime
  /\ now' = now + 1
  /\ UNCHANGED <<users, nextId, tokens, nextTid, bl, req, secretSet, pw>>

\* --------------------------------------------------------------- the start
\* tokens a password login handed to Alice before the run starts
AliceAccess == [tid |-> 1, typ |-> "access", userId |-> 1, role |-> "user",
                walletAddress |-> NoWallet, exp |-> TokenTtl, sig |-> "ok"]
AliceRefresh == [AliceAccess EXCEPT !.tid = 2, !.typ = "refresh"]
\* an access token whose account has since been deleted from the directory
GhostAccess == [AliceAccess EXCEPT !.tid = 3, !.userId = 99]
\* the pair authenticateWallet handed to Bob when he signed in
BobAccess == [tid |-> 4, typ |-> "access", userId |-> 2, role |-> WEB3_USER,
              walletAddress |-> Wallet2, exp |-> TokenTtl, sig |-> "ok"]
BobRefresh == [BobAccess EXCEPT !.tid = 5, !.typ = "refresh"]

\* ---------------------------------------------------------------- passwords
\* The value of the password field is a text and the salts of the hashes laid
\* over it, innermost first: a plaintext has none.
MaxHash == 2
Plaintexts == {"p1", "p2"}
Salts == {1, 2}
Plain(p) == [text |-> p, salts |-> <<>>]

\* bcrypt.hash(value, salt)
bcryptHash(v, salt) == [v EXCEPT !.salts = Append(@, salt)]

\* bcrypt.compare(password, hash): hashing password with the salt of hash
\* gives hash
bcryptCompare(password, hash) ==
  /\ hash.salts # <<>>
  /\ bcryptHash(password, hash.salts[Len(hash.salts)]) = hash

\* user.validatePassword(password)
validatePassword(inst, password) == bcryptCompare(password, inst.value)

\* user.hashPassword()
hashPassword(inst, salt) ==
  IF inst.changed THEN [inst EXCEPT !.value = bcryptHash(@, salt)] ELSE inst

\* An account whose owner chose the password "p1", as findByPk returns it:
\* stored is the password column of the row, value the field of the instance,
\* changed is user.changed('password'), owner the password the owner last
\* chose.
LoadedInstance ==
  [stored |-> bcryptHash(Plain("p1"), 1), value |-> bcryptHash(Plain("p1"), 1),
   changed |-> FALSE, owner |-> "p1"]

\* user.password = v, with a new plaintext or with the stored value: the
\* field is marked changed when v differs from the value it holds
SetPassword(v) ==
  /\ pw' = [pw EXCEPT !.value = v, !.changed = @ \/ v # pw.value]
  /\ UNCHANGED <<users, nextId, tokens, nextTid, bl, now, req, secretSet>>

\* await user.hashPassword(), the public method called on its own
HashPassword(salt) ==
  /\ Len(pw.value.salts) < MaxHash
  /\ pw' = hashPassword(pw, salt)
  /\ UNCHANGED <<users, nextId, tokens, nextTid, bl, now, req, secretSet>>

\* await user.save(): the beforeSave hook, the UPDATE of the row, and the
\* field is no longer changed
Save(salt) ==
  /\ Len(pw.value.salts) < MaxHash
  /\ LET hashed == hashPassword(pw, salt)
     IN pw' = [hashed EXCEPT !.stored = hashed.value, !.changed = FALSE,
                            !.owner = IF pw.changed /\ pw.value.salts = <<>>
                                        THEN pw.value.text ELSE @]
  /\ UNCHANGED <<users, nextId, tokens, nextTid, bl, now, req, secretSet>>

PasswordNext ==
  \/ \E v \in {Plain(p) : p \in Plaintexts} \cup {pw.stored} : SetPassword(v)
  \/ \E salt \in Salts : HashPassword(salt)
  \/ \E salt \in Salts : Save(salt)

\* the directory, the issued tokens and the requests when the server starts
InitState ==
  /\ users = {Alice, Bob}
  /\ nextId = 3
  /\ tokens = {AliceAccess, AliceRefresh, GhostAccess, BobAccess, BobRefresh}
  /\ nextTid = 6
  /\ bl = {}
  /\ now = 0
  /\ req = [r \in Reqs |-> IdleReq]
  /\ pw = LoadedInstance

\* a server started with JWT_SECRET set
Init == InitState /\ secretSet = TRUE

\* a login request body: the claimed address (NoWallet: a field is missing)
\* and the wallet that signed the message
LoginNext ==
  \/ \E r \in Reqs, a \in Addresses \cup {NoWallet}, s \in Wallets : StartWallet(r, a, s)
  \/ \E r \in Reqs : WalletFindOne(r)
  \/ \E r \in Reqs : WalletCreate(r)
  \/ \E r \in Reqs : WalletGenerate(r)
  \/ \E r \in Reqs, a \in Addresses \cup {NoWallet}, s \in Wallets : StartWeb3(r, a, s)
  \/ \E r \in Reqs : Web3FindOne(r)
  \/ \E r \in Reqs : Web3Create(r)
  \/ \E id \in 1..(nextId - 1) : Deactivate(id)

SpecLogin == Init /\ [][LoginNext]_vars

\* a token with its signature made invalid (tampered with, or signed with
\* another key)
Forged(t) == [t EXCEPT !.sig = "bad"]

\* the Authorization headers a client may send: none, an issued access token
\* or a forged one as a Bearer token, an issued access token under another
\* scheme
AccessTokens == {t \in tokens : t.typ = "access"}
Headers ==
  {<<"", NoToken>>}
    \cup {<<"Bearer", t>> : t \in AccessTokens \cup {Forged(AliceAccess)}}
    \cup {<<"Basic", AliceAccess>>}

\* the chains a route may be mounted with
Routes ==
  {<<c, {}>> : c \in Chains \ {"requireRole"}}
    \cup {<<"requireRole", rs>> : rs \in SUBSET UserRole}

\* The chains only read the directory and the blacklist and keep nothing
\* between requests, so one request runs against a changing directory,
\* blacklist and clock.
GateReqs == {1}

GateNext ==
  \/ \E r \in GateReqs, c \in Routes, h \in Headers : StartToken(r, c[1], h[1], h[2], c[2])
  \/ \E r \in GateReqs : TokenFindByPk(r)
  \/ \E r \in GateReqs : VerifiedWalletFindOne(r)
  \/ \E r \in GateReqs, h \in Headers : StartAuthenticate(r, h[1], h[2])
  \/ \E r \in GateReqs : AuthenticateFindByPk(r)
  \/ \E id \in 1..(nextId - 1) : Deactivate(id)
  \/ \E t \in AccessTokens : Revoke(t)
  \/ \E id \in 1..(nextId - 1), v \in BOOLEAN : SetWalletVerified(id, v)
  \/ Tick

SpecGate == Init /\ [][GateNext]_vars

\* a token signed by someone who read the fallback key in the source
DefaultSigned(t) == [t EXCEPT !.sig = "default"]

SecretHeaders ==
  Headers \cup {<<"Bearer", DefaultSigned(t)>> : t \in {AliceAccess, BobAccess}}

\* a server started with or without JWT_SECRET in its environment, serving
\* token validations and authenticateWeb3 sign-ins
InitSecret == InitState /\ secretSet \in BOOLEAN

SecretNext ==
  \/ \E r \in GateReqs, c \in Routes, h \in SecretHeaders :
       StartToken(r, c[1], h[1], h[2], c[2])
  \/ \E r \in GateReqs : TokenFindByPk(r)
  \/ \E r \in GateReqs : VerifiedWalletFindOne(r)
  \/ \E r \in GateReqs, h \in SecretHeaders : StartAuthenticate(r, h[1], h[2])
  \/ \E r \in GateReqs : AuthenticateFindByPk(r)
  \/ \E r \in GateReqs, a \in Addresses, s \in Wallets : StartWeb3(r, a, s)
  \/ \E r \in GateReqs : Web3FindOne(r)
  \/ \E r \in GateReqs : Web3Create(r)
  \/ Tick

SpecSecret == InitSecret /\ [][SecretNext]_vars

\* requests to a route behind authenticateToken alone and to one behind
\* authenticate, side by side, while time passes
ExpiryNext ==
  \/ \E r \in Reqs, h \in Headers : StartToken(r, "requireAuth", h[1], h[2], {})
  \/ \E r \in Reqs : TokenFindByPk(r)
  \/ \E r \in Reqs, h \in Headers : StartAuthenticate(r, h[1], h[2])
  \/ \E r \in Reqs : AuthenticateFindByPk(r)
  \/ Tick

SpecExpiry == Init /\ [][ExpiryNext]_vars

\* the refresh tokens a client may present: none, an issued one, a forged one
RefreshTokens == {t \in tokens : t.typ = "refresh"}
RefreshBodies == {NoToken} \cup RefreshTokens \cup {Forged(AliceRefresh)}

RefreshNext ==
  \/ \E r \in Reqs, t \in RefreshBodies : StartRefresh(r, t)
  \/ \E r \in Reqs : RefreshFindByPk(r)
  \/ \E r \in Reqs : RefreshGenerate(r)
  \/ \E id \in 1..(nextId - 1) : Deactivate(id)
  \/ \E t \in RefreshTokens : Revoke(t)
  \/ Tick

SpecRefresh == Init /\ [][RefreshNext]_vars

\* one request through a token validator and its gate while roles change in
\* the directory
RoleNext ==
  \/ \E r \in GateReqs, c \in Routes, h \in Headers : StartToken(r, c[1], h[1], h[2], c[2])
  \/ \E r \in GateReqs : TokenFindByPk(r)
  \/ \E r \in GateReqs : VerifiedWalletFindOne(r)
  \/ \E r \in GateReqs, h \in Headers : StartAuthenticate(r, h[1], h[2])
  \/ \E r \in GateReqs : AuthenticateFindByPk(r)
  \/ \E id \in 1..(nextId - 1), role \in UserRole : SetRole(id, role)

SpecRole == Init /\ [][RoleNext]_vars

SpecPassword == Init /\ [][PasswordNext]_vars

Next == LoginNext \/ GateNext \/ RefreshNext \/ PasswordNext \/ RoleNext

Spec == Init /\ [][Next]_vars

\* ==================================================================== claims
IsRefresh(q) == q.kind = "refreshToken"
IsLogin(q) == q.kind \in {"authenticateWallet", "authenticateWeb3"}
Finished(q) == q.pc \in {"idle", "done"}

\* C1: once a refresh presenting rt has answered with a new pair, a refresh
\* request that arrives later with the same rt is rejected with 401 at once
\* and gets no pair.
C1_RotationSingleUse ==
  [][\A r \in Reqs :
       ( /\ req[r].pc = "idle" /\ IsRefresh(req'[r])
         /\ \E p \in Reqs : /\ IsRefresh(req[p]) /\ req[p].status = 200
                            /\ req[p].tok = req'[r].tok )
       => (req'[r].pc = "done" /\ req'[r].status = 401 /\ req'[r].issued = {})]_vars

\* C2: whenever a refresh request has answered with a new pair, the refresh
\* token it presented is marked in the revocation store.
C2_OldTokenMarkedBeforeReturn ==
  \A r \in Reqs :
    (IsRefresh(req[r]) /\ req[r].status = 200 /\ req[r].issued # {})
      => req[r].tok \in bl

\* C3: when every wallet login has finished, each address that had no
\* account before and was presented with a valid signature has exactly one
\* account.
C3_ExactlyOneAccount ==
  (\A r \in Reqs : Finished(req[r])) =>
    \A a \in Addresses \ {Bob.walletAddress} :
      (\E r \in Reqs : /\ IsLogin(req[r]) /\ req[r].addr = a
                       /\ SignatureMatches(req[r].signer, a))
        => Cardinality({u \in users : u.walletAddress = a}) = 1

\* C4: a wallet login whose create hit the uniqueness conflict ends with the
\* winner's account and a successful answer.
C4_ConflictRecovered ==
  \A r \in Reqs :
    (IsLogin(req[r]) /\ req[r].conflict)
      => (req[r].status = 200 /\ req[r].user # NoUser /\ ~req[r].errored)

\* C6: a wallet login issues tokens only for an account it read as active.
C6_NoTokensForInactive ==
  \A r \in Reqs :
    (IsLogin(req[r]) /\ req[r].issued # {}) => req[r].user.isActive

\* the request validates a bearer token
IsValidation(q) == q.kind \in Chains \cup {"authenticate"}
WalletChains == {"requireWeb3Auth", "requireWallet", "requireVerifiedWallet"}

\* C5: a validation, or a refresh, whose directory check reads the token's
\* account as Inactive ends with 401, does not reach the handler and issues
\* nothing.
C5_DeactivationPropagates ==
  [][\A r \in Reqs :
       ( /\ IsValidation(req[r]) \/ IsRefresh(req[r])
         /\ req[r].pc = "findByPk" /\ req'[r].pc # "findByPk"
         /\ findByPk(req[r].tok.userId) # NoUser
         /\ ~findByPk(req[r].tok.userId).isActive )
       => (req'[r].status = 401 /\ ~req'[r].handler /\ req'[r].issued = {})]_vars

\* C7: a validation of a token with an invalid signature, or of an expired
\* one, issues no revocation-store lookup.
C7_NoLookupBeforeSignatureAndExpiry ==
  [][\A r \in Reqs :
       ( /\ req[r].pc = "idle" /\ IsValidation(req'[r])
         /\ req'[r].tok # NoToken
         /\ (req'[r].tok.sig # "ok" \/ now > req'[r].tok.exp) )
       => ~req'[r].blLookup]_vars

\* C8: behind requireAuth the handler is reached only by a token with a
\* valid signature, unexpired and not on the blacklist when it is checked,
\* whose account exists and is active when the directory is read; every
\* other request ends with 401.
C8_RequireAuthGate ==
  [][\A r \in Reqs :
       req'[r].kind \in {"requireAuth", "authenticate"} =>
         /\ (req[r].pc = "idle" /\ req'[r].pc = "findByPk")
              => /\ req'[r].tok.sig = "ok" /\ now < req'[r].tok.exp
                 /\ req'[r].tok \notin bl
         /\ (~req[r].handler /\ req'[r].handler)
              => /\ req[r].pc = "findByPk"
                 /\ findByPk(req[r].tok.userId) # NoUser
                 /\ findByPk(req[r].tok.userId).isActive
         /\ (req'[r].pc = "done" /\ ~req'[r].handler) => req'[r].status = 401]_vars

\* a validated identity without a wallet address, on a wallet-requiring chain
NoWalletIdentity(q) ==
  q.kind \in WalletChains /\ q.nexted /\ q.identity.walletAddress = NoWallet

C10_RequireRoleGate ==
  \A r \in Reqs :
    (req[r].kind = "requireRole" /\ req[r].nexted) =>
      /\ req[r].pc = "done"
      /\ req[r].handler <=> (req[r].identity.role \in req[r].roles)
      /\ ~req[r].handler => (req[r].errored /\ req[r].status = 403)

\* requireRole([admin]) has turned away a valid token of a wallet user
C10_Witness ==
  \E r \in Reqs :
    /\ req[r].kind = "requireRole" /\ req[r].nexted
    /\ req[r].roles = {"admin"} /\ req[r].identity.role = WEB3_USER
    /\ req[r].tok.sig = "ok" /\ req[r].status = 403 /\ ~req[r].handler

\* C11: requireVerifiedWallet lets a request through exactly when, at its
\* check, the directory row of the token's account has isWalletVerified true,
\* whatever the flag was when the token was issued; otherwise the request
\* ends with ApiError(403).
C11_VerifiedWalletFresh ==
  [][\A r \in Reqs :
       req[r].kind = "requireVerifiedWallet" =>
         /\ (req[r].pc = "findOne" /\ req'[r].pc # "findOne")
              => /\ req'[r].handler <=> findByPk(req[r].tok.userId).isWalletVerified
                 /\ ~req'[r].handler => (req'[r].errored /\ req'[r].status = 403)
         /\ (~req[r].handler /\ req'[r].handler) => req[r].pc = "findOne"]_vars

\* Bob's token, issued while his wallet was verified, has been turned away
\* with 403 after the directory cleared the flag
C11_Witness ==
  \E r \in Reqs :
    /\ req[r].kind = "requireVerifiedWallet" /\ req[r].tok = BobAccess
    /\ req[r].pc = "done" /\ req[r].status = 403 /\ ~req[r].handler
    /\ ~findByPk(BobAccess.userId).isWalletVerified

\* C12: a row a wallet login adds to the directory has role wallet-user, is
\* active and has isWalletVerified true, and a wallet login that answers 200
\* reports walletVerified = true in its response.
C12_WalletAccountShape ==
  [][/\ \A u \in users' :
          (\A v \in users : v.id # u.id)
            => (u.role = WEB3_USER /\ u.isActive /\ u.isWalletVerified)
     /\ \A r \in Reqs :
          (IsLogin(req'[r]) /\ req'[r].status = 200) => req'[r].resVerified = "true"]_vars

\* C13: on a server started without JWT_SECRET no token validation gets past
\* the signature check and no sign-in issues a token, and a token signed with
\* the key 'your-secret-key' is never accepted by a validator, whatever the
\* configuration.
C13_NoDefaultKey ==
  \A r \in Reqs :
    /\ (IsValidation(req[r]) /\ req[r].tok # NoToken
          /\ (~secretSet \/ req[r].tok.sig = "default"))
         => (Finished(req[r]) /\ ~req[r].nexted /\ ~req[r].handler)
    /\ (IsLogin(req[r]) /\ ~secretSet) => req[r].issued = {}

\* C14: a validator that turns away a correctly signed token because it has
\* expired answers differently, in status or in message, from the way it
\* answers a token whose signature does not verify.
C14_ExpiredDistinctFromMalformed ==
  \A r1, r2 \in Reqs :
    ( /\ req[r1].pc = "done" /\ req[r2].pc = "done"
      /\ req[r1].kind = req[r2].kind /\ IsValidation(req[r1])
      /\ req[r1].err = "TokenExpiredError" /\ req[r1].tok.sig = "ok"
      /\ req[r2].err = "JsonWebTokenError" /\ req[r2].tok.sig = "bad" )
    => <<req[r1].status, req[r1].message>> # <<req[r2].status, req[r2].message>>

\* C15: a wallet login whose signer differs from the claimed address, both
\* taken in lower case, is answered 401 in its first step, which leaves the
\* accounts and the issued tokens as they were; it never holds an account
\* row and never gets a token.
C15_MismatchNoEffect ==
  [][\A r \in Reqs :
       ( /\ IsLogin(req'[r]) /\ req'[r].addr # NoWallet
         /\ toLowerCase(req'[r].signer) # toLowerCase(req'[r].addr) )
       => /\ req'[r].pc = "done" /\ req'[r].status = 401
          /\ req'[r].user = NoUser /\ req'[r].issued = {}
          /\ req[r].pc = "idle" => (users' = users /\ tokens' = tokens)]_vars

\* a login that claims Wallet1 with a message Wallet2 signed has been answered
C15_Witness ==
  \E r \in Reqs :
    /\ IsLogin(req[r]) /\ req[r].addr = Wallet1 /\ req[r].signer = Wallet2
    /\ req[r].pc = "done" /\ req[r].status = 401

\* the email a first sign-in is about to hand to User.create
synthesizedEmail(q) ==
  IF q.kind = "authenticateWallet" THEN WalletUserData(q.addr).email
  ELSE Web3UserData(q.addr).email

\* C16: two first sign-ins through the same entry point that have both found
\* no account and claim different addresses synthesize different emails.
C16_SynthesizedEmailsDistinct ==
  \A r1, r2 \in Reqs :
    ( /\ IsLogin(req[r1]) /\ req[r1].kind = req[r2].kind
      /\ req[r1].pc = "create" /\ req[r2].pc = "create"
      /\ req[r1].addr # req[r2].addr )
    => synthesizedEmail(req[r1]) # synthesizedEmail(req[r2])

\* C17: a save that finds the password field equal to the stored value leaves
\* the stored hash as it is, a save changes the stored hash only to a hash of
\* the value that was set, and after every save validatePassword accepts the
\* password the owner chose.
C17_HashOnlyOnChange ==
  [][/\ pw.value = pw.stored => pw'.stored = pw.stored
     /\ pw'.stored # pw.stored
          => \E salt \in Salts : pw'.stored = bcryptHash(pw.value, salt)
     /\ ~pw'.changed => validatePassword(pw', Plain(pw'.owner))]_vars

\* the requests that run one authentication middleware and nothing after it
\* but the handler
SingleMiddleware ==
  {"requireAuth", "authenticate", "authenticateWallet", "authenticateWeb3", "refreshToken"}

\* C18: an invocation of an authentication middleware that has ended has
\* done exactly one of three things: sent a response, called next(), passed
\* an error to the error boundary.
C18_SingleOutcome ==
  \A r \in Reqs :
    (req[r].kind \in SingleMiddleware /\ req[r].pc = "done")
      => Cardinality({o \in {"sent", "nexted", "errored"} : req[r][o]}) = 1

\* C19: no two accounts hold wallet addresses that are equal once both are
\* put in lower case.
C19_OneAccountPerWalletAnyCase ==
  \A u, v \in users :
    ( /\ u.walletAddress # NoWallet /\ v.walletAddress # NoWallet
      /\ toLowerCase(u.walletAddress) = toLowerCase(v.walletAddress) )
    => u.id = v.id

\* C20: the identity a token validator hands on when it calls next() carries
\* the role and the wallet address the account has in the directory at that
\* moment, whichever of the two validators it is.
C20_IdentityFromDirectory ==
  [][\A r \in Reqs :
       (IsValidation(req'[r]) /\ ~req[r].nexted /\ req'[r].nexted)
         => /\ req'[r].identity.role = findByPk(req'[r].tok.userId).role
            /\ req'[r].identity.walletAddress
                 = findByPk(req'[r].tok.userId).walletAddress]_vars

====
